---- MODULE Spec2Model ----
(***************************************************************************)
(* Model of botvac_tools: the Scan container (lds/lds.py), the ScanParser  *)
(* (parser/scan_parser.py) and the ScanPlotter (lds_tools/plot_scans.py).  *)
(*                                                                         *)
(* Floating point values are fixed-point integers with Scale units per     *)
(* unit: a stored distance d stands for d/Scale metres and a stored angle  *)
(* a for a/Scale radians.                                                  *)
(***************************************************************************)
EXTENDS Integers, Sequences, FiniteSets, Bags, TLC

VARIABLES scan, ret, added, file, scan_string, out, plotter

\* The Scan under test, the inputs and result of the ScanParser calls, and
\* the ScanPlotter
scan_vars == <<scan, ret, added>>
parser_vars == <<file, scan_string, out>>
vars == <<scan, ret, added, file, scan_string, out, plotter>>

\* ---------------------------------------------------------------- bounds
MaxMeas == 2
MaxFileLines == 6
MaxStringLines == 3
MaxAdds == 2
MaxScans == 3

\* ------------------------------------------------------------- constants
Scale == 1000
PiScaled == 3142
_distance_max == 5

\* float('nan'), which float() parses from 'nan': a value apart from every
\* number, with which every comparison is false
NaN == 999999999
IsNaN(v) == v = NaN
Less(a, b) == ~IsNaN(a) /\ ~IsNaN(b) /\ a < b
Greater(a, b) == ~IsNaN(a) /\ ~IsNaN(b) /\ a > b

\* ---------------------------------------------------------------- inputs
DistanceInputs == {5000, 5001}
AngleInputs == {0, 1}
IntensityErrorInputs == {<<0, 0>>, <<7, 3>>}
LinearUnitInputs == {"millimeters", "meters", "bogus"}
AngularUnitInputs == {"degrees", "radians", "bogus"}

acceptable_lu == {"meters", "millimeters"}
acceptable_au == {"degrees", "radians"}

\* ------------------------------------------------------------------ Scan
\* Mutant: the distances start as np.zeros(1), an array of one element.
NewScan_zeros ==
    [_distances |-> <<0>>, _angles |-> <<>>, _intensities |-> <<>>,
     _error_codes |-> <<>>, _unsorted |-> TRUE]

\* Scan.__init__
NewScan ==
    [_distances |-> <<>>, _angles |-> <<>>, _intensities |-> <<>>,
     _error_codes |-> <<>>, _unsorted |-> TRUE]

\* a[ndxs]: numpy indexing of an array by an index array
Take(a, ndxs) == [i \in 1..Len(ndxs) |-> a[ndxs[i]]]

\* The index arrays np.argsort may return: every permutation that puts the
\* angles in ascending order (the default kind is not a stable sort, so
\* the order of equal angles is not fixed).
Permutations1(n) ==
    {p \in [1..n -> 1..n] : \A i, j \in 1..n : i # j => p[i] # p[j]}

IndexArrays == [n \in 0..(MaxMeas + 1) |-> Permutations1(n)]

\* Mutant: the index array is 0..n-1, the order the array already has.
argsort_arange(a) == {[i \in 1..Len(a) |-> i]}

argsort(a) ==
    {p \in (IF Len(a) \in DOMAIN IndexArrays THEN IndexArrays[Len(a)]
            ELSE Permutations1(Len(a))) :
        \A i \in 1..(Len(a) - 1) : a[p[i]] <= a[p[i + 1]]}

\* Mutant: the sort leaves the intensities in their old order.
_sort_measurements_skips_intensities(s, sorted_ndxs) ==
    IF s._unsorted
    THEN [_distances |-> Take(s._distances, sorted_ndxs),
          _angles |-> Take(s._angles, sorted_ndxs),
          _intensities |-> s._intensities,
          _error_codes |-> Take(s._error_codes, sorted_ndxs),
          _unsorted |-> FALSE]
    ELSE s

\* Scan._sort_measurements, given the index array argsort produced
_sort_measurements(s, sorted_ndxs) ==
    IF s._unsorted
    THEN [_distances |-> Take(s._distances, sorted_ndxs),
          _angles |-> Take(s._angles, sorted_ndxs),
          _intensities |-> Take(s._intensities, sorted_ndxs),
          _error_codes |-> Take(s._error_codes, sorted_ndxs),
          _unsorted |-> FALSE]
    ELSE s

\* distance/1000. and angle*np.pi/180. in fixed point
NormalizeDistance(distance, linear_unit) ==
    IF IsNaN(distance) THEN NaN
    ELSE IF linear_unit = "millimeters"
    THEN (distance * Scale) \div 1000
    ELSE distance * Scale

\* Mutant: a distance above the maximum is stored as the maximum.
ClampDistance_to_max(distance) ==
    IF Greater(distance, _distance_max * Scale)
    THEN _distance_max * Scale ELSE distance

\* Mutant: the maximum itself is zeroed as well.
ClampDistance_at_max(distance) ==
    IF ~IsNaN(distance) /\ distance >= _distance_max * Scale THEN 0
    ELSE distance

ClampDistance(distance) ==
    IF Greater(distance, _distance_max * Scale) THEN 0 ELSE distance

NormalizeAngle(angle, angular_unit) ==
    IF angular_unit = "degrees"
    THEN (angle * PiScaled) \div 180
    ELSE angle * Scale

\* The record add_measurement appends for valid units
Record(distance, angle, intensity, error_code, linear_unit, angular_unit) ==
    [distance |-> ClampDistance(NormalizeDistance(distance, linear_unit)),
     angle |-> NormalizeAngle(angle, angular_unit),
     intensity |-> intensity,
     error_code |-> error_code]

\* Mutant: add_measurement does not set the dirty flag.
add_measurement_keeps_flag(s, distance, angle, intensity, error_code, linear_unit, angular_unit) ==
    LET r == Record(distance, angle, intensity, error_code,
                    linear_unit, angular_unit)
    IN  IF linear_unit \notin acceptable_lu \/ angular_unit \notin acceptable_au
        THEN [scan |-> s, err |-> "InvalidUnit"]
        ELSE [scan |->
                [s EXCEPT !._distances = Append(@, r.distance),
                          !._angles = Append(@, r.angle),
                          !._intensities = Append(@, r.intensity),
                          !._error_codes = Append(@, r.error_code)],
              err |-> "none"]

\* Mutant: the distance is appended before the angular unit is checked.
add_measurement_appends_early(s, distance, angle, intensity, error_code, linear_unit, angular_unit) ==
    LET s1 == [s EXCEPT !._unsorted = TRUE]
        r == Record(distance, angle, intensity, error_code,
                    linear_unit, angular_unit)
    IN  IF linear_unit \notin acceptable_lu
        THEN [scan |-> s1, err |-> "InvalidUnit"]
        ELSE IF angular_unit \notin acceptable_au
        THEN [scan |-> [s1 EXCEPT !._distances = Append(@, r.distance)],
              err |-> "InvalidUnit"]
        ELSE [scan |->
                [s1 EXCEPT !._distances = Append(@, r.distance),
                           !._angles = Append(@, r.angle),
                           !._intensities = Append(@, r.intensity),
                           !._error_codes = Append(@, r.error_code)],
              err |-> "none"]

\* Mutant: the angular unit is not checked; an unknown one counts as radians.
add_measurement_any_angular_unit(s, distance, angle, intensity, error_code, linear_unit, angular_unit) ==
    LET s1 == [s EXCEPT !._unsorted = TRUE]
        r == Record(distance, angle, intensity, error_code,
                    linear_unit, angular_unit)
    IN  IF linear_unit \notin acceptable_lu
        THEN [scan |-> s1, err |-> "InvalidUnit"]
        ELSE [scan |->
                [s1 EXCEPT !._distances = Append(@, r.distance),
                           !._angles = Append(@, r.angle),
                           !._intensities = Append(@, r.intensity),
                           !._error_codes = Append(@, r.error_code)],
              err |-> "none"]

\* Scan.add_measurement: the Scan after the call and the error raised
add_measurement(s, distance, angle, intensity, error_code, linear_unit, angular_unit) ==
    LET s1 == [s EXCEPT !._unsorted = TRUE]
        r == Record(distance, angle, intensity, error_code,
                    linear_unit, angular_unit)
    IN  IF linear_unit \notin acceptable_lu
        THEN [scan |-> s1, err |-> "InvalidUnit"]
        ELSE IF angular_unit \notin acceptable_au
        THEN [scan |-> s1, err |-> "InvalidUnit"]
        ELSE [scan |->
                [s1 EXCEPT !._distances = Append(@, r.distance),
                           !._angles = Append(@, r.angle),
                           !._intensities = Append(@, r.intensity),
                           !._error_codes = Append(@, r.error_code)],
              err |-> "none"]

\* ------------------------------------------------------------ ScanParser
\* A line of text is [start, end, tokens]: whether it contains start_token
\* ('AngleInDegrees'), whether it contains end_token ('ROTATION_SPEED'), and
\* its whitespace-delimited tokens. A token is the sequence of its
\* comma-separated fields; a field is [num, v]: whether its text is a
\* number, and the number. A string is the sequence of the lines that were
\* concatenated into it (every accumulated line ends with its newline).
\* The code is Python 2: the lines of a file opened 'rb' are str, and a
\* float never equals the string 'No previous angle.'.
N(v) == [num |-> TRUE, v |-> v]
X == [num |-> FALSE, v |-> 0]
Tok(angle, distance, intense, err) == <<N(angle), N(distance), N(intense), N(err)>>
DataLine(tokens) == [start |-> FALSE, end |-> FALSE, tokens |-> tokens]

StartLine == [start |-> TRUE, end |-> FALSE, tokens |-> <<<<X, X, X, X>>>>]
EndLine == [start |-> FALSE, end |-> TRUE, tokens |-> <<<<X, N(5)>>>>]
BothLine == [start |-> TRUE, end |-> TRUE, tokens |-> <<<<X, X>>>>]
GoodLine == DataLine(<<Tok(0, 100, 5, 0)>>)
NextLine == DataLine(<<Tok(5, 150, 6, 0)>>)
BadLine == DataLine(<<<<N(0), N(100), N(5)>>>>)

NoCall == [op |-> "none", err |-> "none", val |-> <<>>]

\* No ScanPlotter has been made
NoPlotter ==
    [state |-> "none", given |-> <<>>, _scans |-> <<>>, _sdx |-> 0,
     key |-> "", was |-> 0]

\* ret after Scan.__init__: no call has been made on the Scan yet
NoRet == [op |-> "__init__", units |-> <<>>, sorted |-> FALSE, err |-> "none", val |-> <<>>]

\* The state of the loop of file_to_strings before the first line
FileLoopInit == [scans |-> <<>>, scan_string |-> <<>>, append_to_str |-> FALSE]

\* Mutant: a start token does not reset the string being recorded.
FileLineStep_no_reset(st, line) ==
    IF line.start
    THEN [st EXCEPT !.append_to_str = TRUE]
    ELSE IF line.end /\ st.append_to_str
    THEN [st EXCEPT !.scans = Append(@, st.scan_string),
                    !.append_to_str = FALSE]
    ELSE IF st.append_to_str
    THEN [st EXCEPT !.scan_string = Append(@, line)]
    ELSE st

\* Mutant: a start token met while recording saves the string recorded so far.
FileLineStep_saves_on_start(st, line) ==
    IF line.start
    THEN [scans |-> IF st.append_to_str
                    THEN Append(st.scans, st.scan_string) ELSE st.scans,
          scan_string |-> <<>>, append_to_str |-> TRUE]
    ELSE IF line.end /\ st.append_to_str
    THEN [st EXCEPT !.scans = Append(@, st.scan_string),
                    !.append_to_str = FALSE]
    ELSE IF st.append_to_str
    THEN [st EXCEPT !.scan_string = Append(@, line)]
    ELSE st

\* Mutant: the end token is looked for before the start token.
FileLineStep_end_first(st, line) ==
    IF line.end /\ st.append_to_str
    THEN [st EXCEPT !.scans = Append(@, st.scan_string),
                    !.append_to_str = FALSE]
    ELSE IF line.start
    THEN [st EXCEPT !.scan_string = <<>>, !.append_to_str = TRUE]
    ELSE IF st.append_to_str
    THEN [st EXCEPT !.scan_string = Append(@, line)]
    ELSE st

\* One iteration of the loop of file_to_strings
FileLineStep(st, line) ==
    IF line.start
    THEN [st EXCEPT !.scan_string = <<>>, !.append_to_str = TRUE]
    ELSE IF line.end /\ st.append_to_str
    THEN [st EXCEPT !.scans = Append(@, st.scan_string),
                    !.append_to_str = FALSE]
    ELSE IF st.append_to_str
    THEN [st EXCEPT !.scan_string = Append(@, line)]
    ELSE st

RECURSIVE FileLoop(_, _, _)
FileLoop(lines, i, st) ==
    IF i > Len(lines) THEN st
    ELSE FileLoop(lines, i + 1, FileLineStep(st, lines[i]))

\* ScanParser.file_to_strings, on the lines of the file
file_to_strings(lines) == FileLoop(lines, 1, FileLoopInit).scans

\* scan_string.split(): the whitespace-delimited tokens of a string
RECURSIVE split(_)
split(str) ==
    IF str = <<>> THEN <<>> ELSE Head(str).tokens \o split(Tail(str))

\* prev_angle before the first line ('No previous angle.')
NoPreviousAngle == [set |-> FALSE, v |-> 0]

\* Mutant: an angle of 360 passes the range check.
LineError_angle_360(meas, prev_angle) ==
    IF Len(meas) # 4 THEN "MalformedRecord"
    ELSE IF \E k \in 1..4 : ~meas[k].num THEN "NotANumber"
    ELSE IF Less(meas[2].v, 0) THEN "InvalidValue"
    ELSE IF meas[1].v < 0 \/ meas[1].v > 360 THEN "InvalidValue"
    ELSE IF meas[3].v < 0 THEN "InvalidValue"
    ELSE IF meas[4].v < 0 THEN "InvalidValue"
    ELSE IF prev_angle.set /\ prev_angle.v >= meas[1].v THEN "OutOfOrder"
    ELSE "none"

\* Mutant: only a line with fewer than 4 fields is malformed.
LineError_short_only(meas, prev_angle) ==
    IF Len(meas) < 4 THEN "MalformedRecord"
    ELSE IF \E k \in 1..4 : ~meas[k].num THEN "NotANumber"
    ELSE IF Less(meas[2].v, 0) THEN "InvalidValue"
    ELSE IF meas[1].v < 0 \/ meas[1].v > 359 THEN "InvalidValue"
    ELSE IF meas[3].v < 0 THEN "InvalidValue"
    ELSE IF meas[4].v < 0 THEN "InvalidValue"
    ELSE IF prev_angle.set /\ prev_angle.v >= meas[1].v THEN "OutOfOrder"
    ELSE "none"

\* The error one line of from_string raises before add_measurement is called
LineError(meas, prev_angle) ==
    IF Len(meas) # 4 THEN "MalformedRecord"
    ELSE IF \E k \in 1..4 : ~meas[k].num THEN "NotANumber"
    ELSE IF Less(meas[2].v, 0) THEN "InvalidValue"
    ELSE IF meas[1].v < 0 \/ meas[1].v > 359 THEN "InvalidValue"
    ELSE IF meas[3].v < 0 THEN "InvalidValue"
    ELSE IF meas[4].v < 0 THEN "InvalidValue"
    ELSE IF prev_angle.set /\ prev_angle.v >= meas[1].v THEN "OutOfOrder"
    ELSE "none"

\* The state of the loop of from_string before the first line
StringLoopInit == [scan |-> NewScan, prev_angle |-> NoPreviousAngle, err |-> "none"]

\* Mutant: a rejected line is skipped and the loop goes on.
StringLineStep_skips_rejected(st, meas) ==
    LET e == LineError(meas, st.prev_angle)
    IN  IF e # "none" THEN st
        ELSE LET r == add_measurement(st.scan, meas[2].v, meas[1].v,
                                      meas[3].v, meas[4].v,
                                      "millimeters", "degrees")
             IN  [scan |-> r.scan,
                  prev_angle |-> IF st.prev_angle.set THEN st.prev_angle
                                 ELSE [set |-> TRUE, v |-> meas[1].v],
                  err |-> r.err]

\* Mutant: the measurement is added with the distance taken as metres.
StringLineStep_as_meters(st, meas) ==
    LET e == LineError(meas, st.prev_angle)
    IN  IF st.err # "none" THEN st
        ELSE IF e # "none" THEN [st EXCEPT !.err = e]
        ELSE LET r == add_measurement(st.scan, meas[2].v, meas[1].v,
                                      meas[3].v, meas[4].v,
                                      "meters", "degrees")
             IN  [scan |-> r.scan,
                  prev_angle |-> IF st.prev_angle.set THEN st.prev_angle
                                 ELSE [set |-> TRUE, v |-> meas[1].v],
                  err |-> r.err]

\* One iteration of the loop of from_string; once an error is raised the
\* loop is over and the remaining lines are not looked at.
StringLineStep(st, meas) ==
    LET e == LineError(meas, st.prev_angle)
    IN  IF st.err # "none" THEN st
        ELSE IF e # "none" THEN [st EXCEPT !.err = e]
        ELSE LET r == add_measurement(st.scan, meas[2].v, meas[1].v,
                                      meas[3].v, meas[4].v,
                                      "millimeters", "degrees")
             IN  [scan |-> r.scan,
                  prev_angle |-> IF st.prev_angle.set THEN st.prev_angle
                                 ELSE [set |-> TRUE, v |-> meas[1].v],
                  err |-> r.err]

RECURSIVE StringLoop(_, _, _)
StringLoop(scan_lines, i, st) ==
    IF i > Len(scan_lines) THEN st
    ELSE StringLoop(scan_lines, i + 1, StringLineStep(st, scan_lines[i]))

\* Mutant: a string without any line is rejected.
from_string_rejects_empty(str) ==
    LET st == StringLoop(split(str), 1, StringLoopInit)
    IN  IF split(str) = <<>>
        THEN [err |-> "MalformedRecord", returned |-> FALSE, scan |-> st.scan]
        ELSE [err |-> st.err, returned |-> st.err = "none", scan |-> st.scan]

\* ScanParser.from_string: the error raised, whether a Scan is returned,
\* and the Scan built up to the return or the raise
from_string(str) ==
    LET st == StringLoop(split(str), 1, StringLoopInit)
    IN  [err |-> st.err, returned |-> st.err = "none", scan |-> st.scan]

\* Mutant: from_file gives up at the first string that fails to parse.
RECURSIVE StringsLoop_breaks(_, _, _)
StringsLoop_breaks(scan_strings, i, scans) ==
    IF i > Len(scan_strings) THEN scans
    ELSE LET r == from_string(scan_strings[i])
         IN  IF r.returned
             THEN StringsLoop_breaks(scan_strings, i + 1, Append(scans, r.scan))
             ELSE scans

from_file_breaks(lines) ==
    [err |-> "none", val |-> StringsLoop_breaks(file_to_strings(lines), 1, <<>>)]

\* The loop of from_file: try: scans.append(...) except Exception: pass
RECURSIVE StringsLoop(_, _, _)
StringsLoop(scan_strings, i, scans) ==
    IF i > Len(scan_strings) THEN scans
    ELSE LET r == from_string(scan_strings[i])
         IN  StringsLoop(scan_strings, i + 1,
                         IF r.returned THEN Append(scans, r.scan) ELSE scans)

\* ScanParser.from_file, on the lines of the file
from_file(lines) ==
    [err |-> "none", val |-> StringsLoop(file_to_strings(lines), 1, <<>>)]

\* ------------------------------------------------- ScanParser on files
SeqsUpTo(S, n) == UNION {[1..k -> S] : k \in 0..n}

FileLineInputs == {StartLine, EndLine, BothLine, GoodLine, NextLine, BadLine}

InitParser ==
    /\ scan = NewScan
    /\ ret = NoRet
    /\ added = <<>>
    /\ file \in SeqsUpTo(FileLineInputs, MaxFileLines)
    /\ scan_string = <<>>
    /\ out = NoCall
    /\ plotter = NoPlotter

FileToStrings ==
    /\ out' = [op |-> "file_to_strings", err |-> "none",
               val |-> file_to_strings(file)]
    /\ UNCHANGED <<file, scan_string>>
    /\ UNCHANGED scan_vars
    /\ UNCHANGED plotter

FromFile ==
    /\ out' = [op |-> "from_file"] @@ from_file(file)
    /\ UNCHANGED <<file, scan_string>>
    /\ UNCHANGED scan_vars
    /\ UNCHANGED plotter

NextParser ==
    \/ FileToStrings
    \/ FromFile

SpecParser == InitParser /\ [][NextParser]_vars

\* ---------------------------------------------- ScanParser.from_string
StringLineInputs ==
    {DataLine(<<Tok(0, 100, 5, 0)>>),
     DataLine(<<Tok(5, 150, 6, 0)>>),
     DataLine(<<Tok(3, 6000, 7, 1)>>),
     DataLine(<<Tok(359, 120, 0, 2)>>),
     DataLine(<<Tok(1, 100, 5, 0), Tok(2, 100, 5, 0)>>),
     DataLine(<<>>),
     DataLine(<<<<N(4), N(100), N(5)>>>>),
     DataLine(<<<<X, N(100), N(5)>>>>),
     DataLine(<<<<N(4), N(100), N(5), N(0), N(0)>>>>),
     DataLine(<<<<N(4), X, N(5), N(0)>>>>),
     DataLine(<<Tok(4, -1, 5, 0)>>),
     DataLine(<<Tok(4, NaN, 5, 0)>>),
     DataLine(<<Tok(-1, 100, 5, 0)>>),
     DataLine(<<Tok(360, 100, 5, 0)>>),
     DataLine(<<Tok(4, 100, -1, 0)>>),
     DataLine(<<Tok(4, 100, 5, -1)>>)}

InitString ==
    /\ scan = NewScan
    /\ ret = NoRet
    /\ added = <<>>
    /\ file = <<>>
    /\ scan_string \in SeqsUpTo(StringLineInputs, MaxStringLines)
    /\ out = NoCall
    /\ plotter = NoPlotter

FromString ==
    /\ out' = [op |-> "from_string"] @@ from_string(scan_string)
    /\ UNCHANGED <<file, scan_string>>
    /\ UNCHANGED scan_vars
    /\ UNCHANGED plotter

NextString == FromString

SpecString == InitString /\ [][NextString]_vars

\* --------------------------------------------------- Scan state machine
\* scan:  the Scan object
\* ret:   the last call on it: its name, the units it was given, whether it
\*        ran the sort, the error it raised and the value it returned
\* added: the records of the add_measurement calls that completed, in call
\*        order, each with whether the Scan was sorted when the call began
AccessorOps ==
    {"distances", "angles", "intensities", "error_codes", "x", "y", "points"}

\* distances * np.cos(angles) and distances * np.sin(angles), element by
\* element: each product is kept as its two factors under the function's name
Polar(fn, s) ==
    [i \in 1..Len(s._angles) |->
        [r |-> s._distances[i], fn |-> fn, of |-> s._angles[i]]]

\* What an accessor returns from a sorted Scan
View(s, op) ==
    CASE op = "distances" -> s._distances
      [] op = "angles" -> s._angles
      [] op = "intensities" -> s._intensities
      [] op = "error_codes" -> s._error_codes
      [] op = "x" -> Polar("cos", s)
      [] op = "y" -> Polar("sin", s)
      [] op = "points" -> <<Polar("cos", s), Polar("sin", s)>>

Init ==
    /\ scan = NewScan
    /\ ret = NoRet
    /\ added = <<>>
    /\ file = <<>>
    /\ scan_string = <<>>
    /\ out = NoCall
    /\ plotter = NoPlotter

AddMeasurement ==
    \E distance \in DistanceInputs, angle \in AngleInputs,
       ie \in IntensityErrorInputs,
       linear_unit \in LinearUnitInputs, angular_unit \in AngularUnitInputs :
        LET r == add_measurement(scan, distance, angle, ie[1], ie[2],
                                 linear_unit, angular_unit)
        IN  /\ Len(scan._angles) < MaxMeas
            /\ scan' = r.scan
            /\ ret' = [op |-> "add_measurement",
                       units |-> <<linear_unit, angular_unit>>,
                       sorted |-> FALSE, err |-> r.err, val |-> <<>>]
            /\ added' = IF r.err = "none"
                        THEN Append(added,
                                    [rec |-> Record(distance, angle,
                                                    ie[1], ie[2],
                                                    linear_unit, angular_unit),
                                     after_sort |-> ~scan._unsorted])
                        ELSE added
            /\ UNCHANGED parser_vars
            /\ UNCHANGED plotter

\* Mutant: the accessors sort on every call, whatever the dirty flag says.
Accessor_always_sorts(op) ==
    \E sorted_ndxs \in argsort(scan._angles) :
        LET s == _sort_measurements([scan EXCEPT !._unsorted = TRUE], sorted_ndxs)
        IN  /\ scan' = s
            /\ ret' = [op |-> op, units |-> <<>>, sorted |-> TRUE,
                       err |-> "none", val |-> View(s, op)]
            /\ UNCHANGED added
            /\ UNCHANGED parser_vars
            /\ UNCHANGED plotter

\* A read accessor: the sort-if-dirty step, then the requested view
Accessor(op) ==
    \E sorted_ndxs \in (IF scan._unsorted THEN argsort(scan._angles)
                         ELSE {<<>>}) :
        LET s == _sort_measurements(scan, sorted_ndxs)
        IN  /\ scan' = s
            /\ ret' = [op |-> op, units |-> <<>>, sorted |-> scan._unsorted,
                       err |-> "none", val |-> View(s, op)]
            /\ UNCHANGED added
            /\ UNCHANGED parser_vars
            /\ UNCHANGED plotter

distances == Accessor("distances")
angles == Accessor("angles")
intensities == Accessor("intensities")
error_codes == Accessor("error_codes")
x == Accessor("x")
y == Accessor("y")
points == Accessor("points")

Next ==
    \/ AddMeasurement
    \/ distances
    \/ angles
    \/ intensities
    \/ error_codes
    \/ x
    \/ y
    \/ points

Spec == Init /\ [][Next]_vars

\* ------------------------------------------------------- helper notions
Ascending(a) == \A i \in 1..(Len(a) - 1) : a[i] <= a[i + 1]

Range(f) == {f[i] : i \in DOMAIN f}

\* The multiset of the elements of a sequence
BagOfSeq(q) == [e \in Range(q) |-> Cardinality({i \in DOMAIN q : q[i] = e})]

\* The 4-tuples (distance, angle, intensity, error code) a Scan holds, by index
Tuples(s) ==
    [i \in 1..Len(s._angles) |->
        [distance |-> s._distances[i], angle |-> s._angles[i],
         intensity |-> s._intensities[i], error_code |-> s._error_codes[i]]]

AddedRecords == [i \in 1..Len(added) |-> added[i].rec]

SameLengths(s) ==
    /\ Len(s._distances) = Len(s._angles)
    /\ Len(s._intensities) = Len(s._angles)
    /\ Len(s._error_codes) = Len(s._angles)

\* ---------------------------------------------------------------- claims

\* C1: every call of angles() returns the angles in ascending order, also
\* a call that follows an add_measurement made after an earlier read.
C1_AnglesAscending == ret.op = "angles" => Ascending(ret.val)

\* angles() has just returned two angles that were added in descending
\* order, the second one after the Scan had already been read and sorted.
C1_Witness ==
    /\ ret.op = "angles"
    /\ Len(added) = 2
    /\ added[2].after_sort
    /\ added[2].rec.angle < added[1].rec.angle
    /\ ret.val = <<added[2].rec.angle, added[1].rec.angle>>

\* C2: after any accessor call the 4-tuples read at equal indices of the
\* four sequences are exactly the multiset of the records that were added:
\* none lost, none duplicated, no fields mixed between records.
C2_IndexAlignment ==
    ret.op \in AccessorOps =>
        /\ SameLengths(scan)
        /\ BagOfSeq(Tuples(scan)) = BagOfSeq(AddedRecords)
        /\ ret.val = CASE ret.op = "distances" -> scan._distances
                       [] ret.op = "angles" -> scan._angles
                       [] ret.op = "intensities" -> scan._intensities
                       [] ret.op = "error_codes" -> scan._error_codes
                       [] OTHER -> View(scan, ret.op)

\* An accessor has returned after a sort that had to move two records
\* that differ in every field.
C2_Witness ==
    /\ ret.op \in AccessorOps
    /\ Len(added) = 2
    /\ added[1].rec.angle > added[2].rec.angle
    /\ added[1].rec.distance # added[2].rec.distance
    /\ added[1].rec.intensity # added[2].rec.intensity
    /\ added[1].rec.error_code # added[2].rec.error_code
    /\ Tuples(scan) = <<added[2].rec, added[1].rec>>

\* C3: the four sequences always have the same length, that length is the
\* number of add_measurement calls that completed, and no step lowers it.
C3_Lengths ==
    /\ [](SameLengths(scan) /\ Len(scan._angles) = Len(added))
    /\ [][Len(scan'._angles) >= Len(scan._angles)]_vars

\* Two measurements are held after a failed call and a sort.
C3_Witness ==
    /\ Len(added) = 2
    /\ Len(scan._distances) = 2
    /\ ~scan._unsorted

\* C4: add_measurement with a linear unit outside {millimeters, meters} or
\* an angular unit outside {degrees, radians} fails with InvalidUnit and
\* leaves the lengths and contents of the four sequences as they were.
BadUnits(units) ==
    \/ units[1] \notin {"millimeters", "meters"}
    \/ units[2] \notin {"degrees", "radians"}

C4_InvalidUnitAppendsNothing ==
    /\ [](ret.op = "add_measurement" =>
            (BadUnits(ret.units) <=> ret.err = "InvalidUnit"))
    /\ [][(ret'.op = "add_measurement" /\ BadUnits(ret'.units)) =>
            /\ scan'._distances = scan._distances
            /\ scan'._angles = scan._angles
            /\ scan'._intensities = scan._intensities
            /\ scan'._error_codes = scan._error_codes]_vars

\* A call with a good linear unit and a bad angular unit has failed on a
\* Scan that holds a measurement.
C4_Witness ==
    /\ ret.op = "add_measurement"
    /\ ret.units = <<"millimeters", "bogus">>
    /\ ret.err = "InvalidUnit"
    /\ Len(scan._angles) = 1

\* C5: a call of add_measurement that fails with InvalidUnit leaves every
\* field of the Scan, the dirty flag included, as it was before the call.
C5_FailureBeforeMutation ==
    [][(ret'.op = "add_measurement" /\ ret'.err = "InvalidUnit") =>
            scan' = scan]_vars

\* C6 (as claimed): every Scan from_string returns was built from lines
\* whose angles are strictly increasing in input order, because a line whose
\* angle is not above the angle of the line before it fails with OutOfOrder.
C6_AnglesStrictlyIncreasing ==
    (out.op = "from_string" /\ out.returned) =>
        \A i \in 1..(Len(split(scan_string)) - 1) :
            split(scan_string)[i][1].v < split(scan_string)[i + 1][1].v

\* The marker lines of a file: a line holding start_token is a start marker
\* (whatever else it holds); an end marker holds end_token and no start_token
IsStartMarker(line) == line.start
IsEndMarker(line) == line.end /\ ~line.start
IsMarker(line) == line.start \/ line.end

\* An end marker closes a block when the nearest marker line before it is
\* a start marker; Opener(f, j) is that start marker.
Closes(f, j) ==
    /\ IsEndMarker(f[j])
    /\ \E i \in 1..(j - 1) :
        /\ IsStartMarker(f[i])
        /\ \A k \in (i + 1)..(j - 1) : ~IsMarker(f[k])

Opener(f, j) ==
    CHOOSE i \in 1..(j - 1) :
        /\ IsStartMarker(f[i])
        /\ \A k \in (i + 1)..(j - 1) : ~IsMarker(f[k])

Closers(f) == {j \in 1..Len(f) : Closes(f, j)}

NthOf(S, n) == CHOOSE j \in S : Cardinality({k \in S : k < j}) = n - 1

\* The completed blocks of a file, in file order: for each closing end
\* marker, the lines strictly between its start marker and itself
Blocks(f) ==
    [n \in 1..Cardinality(Closers(f)) |->
        LET j == NthOf(Closers(f), n)
        IN  SubSeq(f, Opener(f, j) + 1, j - 1)]

\* C7: file_to_strings returns, in file order, one string per completed
\* block: the lines strictly between the start marker that opened the buffer
\* and the end marker that closed it, without the marker lines; lines seen
\* while not accumulating are in no string.
C7_StringsAreBlocks == out.op = "file_to_strings" => out.val = Blocks(file)

\* Two blocks were extracted from a file that also has a data line between
\* the blocks.
C7_Witness ==
    /\ out.op = "file_to_strings"
    /\ file = <<StartLine, GoodLine, EndLine, NextLine, StartLine, EndLine>>
    /\ out.val = <<<<GoodLine>>, <<>>>>

\* The shape of a file made of blocks only, read from line p on: each block
\* is a start marker followed by data lines and then either an end marker
\* (a well-formed block, counted in closed when it parses) or, with the end
\* marker missing, the next start marker or the end of the file (open).
RECURSIVE DataEnd(_, _)
DataEnd(f, p) ==
    IF p <= Len(f) /\ ~IsMarker(f[p]) THEN DataEnd(f, p + 1) ELSE p

RECURSIVE Shape(_, _, _)
Shape(f, p, acc) ==
    IF p > Len(f) THEN acc
    ELSE IF ~IsStartMarker(f[p]) THEN [acc EXCEPT !.ok = FALSE]
    ELSE LET q == DataEnd(f, p + 1)
         IN  IF q <= Len(f) /\ IsEndMarker(f[q])
             THEN Shape(f, q + 1,
                        [acc EXCEPT !.closed = @ + 1,
                                    !.ok = @ /\ from_string(SubSeq(f, p + 1, q - 1)).returned])
             ELSE Shape(f, q, [acc EXCEPT !.open = @ + 1,
                                          !.open_at_end = (q > Len(f))])

FileShape(f) == Shape(f, 1, [ok |-> TRUE, closed |-> 0, open |-> 0, open_at_end |-> FALSE])

\* k well-formed, parseable blocks plus one block missing its end marker
OneUnterminated(f) == FileShape(f).ok /\ FileShape(f).open = 1

\* C8: for a file of k well-formed, parseable blocks plus one block missing
\* its end marker, at the end of the file or elsewhere, file_to_strings
\* returns exactly k strings and from_file exactly k Scans.
C8_UnterminatedDropped ==
    OneUnterminated(file) =>
        /\ out.op = "file_to_strings" => Len(out.val) = FileShape(file).closed
        /\ out.op = "from_file" => Len(out.val) = FileShape(file).closed

\* from_file has returned the one Scan of a file whose first block, with
\* a data line in it, has no end marker and is followed by a good block.
C8_Witness ==
    /\ out.op = "from_file"
    /\ file = <<StartLine, GoodLine, StartLine, GoodLine, NextLine, EndLine>>
    /\ OneUnterminated(file)
    /\ ~FileShape(file).open_at_end
    /\ Len(out.val) = 1

\* The indices of the strings that from_string parses
Parses(scan_strings) ==
    {i \in 1..Len(scan_strings) : from_string(scan_strings[i]).err = "none"}

\* C9: from_file raises nothing and returns exactly the Scans of the
\* extracted strings on which from_string succeeds, in file order; a string
\* that fails is dropped as a whole and the strings after it are still parsed.
C9_FromFileKeepsGoodScans ==
    out.op = "from_file" =>
        LET scan_strings == file_to_strings(file)
            good == Parses(scan_strings)
        IN  /\ out.err = "none"
            /\ Len(out.val) = Cardinality(good)
            /\ \A n \in 1..Len(out.val) :
                out.val[n] = from_string(scan_strings[NthOf(good, n)]).scan

\* A block with a malformed line was dropped and the good block after it
\* was parsed and returned.
C9_Witness ==
    /\ out.op = "from_file"
    /\ file = <<StartLine, BadLine, EndLine, StartLine, GoodLine, EndLine>>
    /\ Len(out.val) = 1
    /\ Len(out.val[1]._angles) = 1

\* The error the checks of from_string raise on the i-th line, prev_angle
\* being unset on the first line and the first line's angle afterwards
LineErrorAt(scan_lines, i) ==
    LineError(scan_lines[i],
              IF i = 1 THEN NoPreviousAngle
              ELSE [set |-> TRUE, v |-> scan_lines[1][1].v])

Rejected(scan_lines) ==
    {i \in 1..Len(scan_lines) : LineErrorAt(scan_lines, i) # "none"}

\* C10: if from_string rejects a line, the call ends with the error of the
\* first rejected line and returns no Scan, however many lines were added
\* before; a returned Scan holds one measurement for every line.
C10_NoPartialScan ==
    out.op = "from_string" =>
        LET scan_lines == split(scan_string)
            bad == Rejected(scan_lines)
        IN  /\ bad # {} =>
                /\ ~out.returned
                /\ out.err = LineErrorAt(scan_lines, NthOf(bad, 1))
            /\ out.returned => Len(out.scan._angles) = Len(scan_lines)

\* from_string has raised on the third line of a string after adding the
\* two lines before it.
C10_Witness ==
    /\ out.op = "from_string"
    /\ Len(split(scan_string)) = 3
    /\ Rejected(split(scan_string)) = {3}
    /\ ~out.returned
    /\ out.err = "MalformedRecord"
    /\ Len(out.scan._angles) = 2

\* C11: an accessor called on a Scan whose dirty flag is clear does not
\* sort and returns the stored sequence as it is, so repeated calls with no
\* add_measurement in between return the same; the flag is clear after
\* every accessor call and set after every add_measurement call.
C11_Memoized ==
    /\ [](ret.op \in AccessorOps => ~scan._unsorted)
    /\ [](ret.op = "add_measurement" => scan._unsorted)
    /\ [][ret'.op \in AccessorOps =>
            /\ ret'.sorted <=> scan._unsorted
            /\ ret'.val = View(scan', ret'.op)
            /\ ~scan._unsorted => scan' = scan]_vars

\* An accessor has returned without sorting a Scan that holds two records
\* of equal angle, which a second sort could have put in the other order.
C11_Witness ==
    /\ ret.op \in AccessorOps
    /\ ~ret.sorted
    /\ Len(scan._angles) = 2
    /\ scan._angles[1] = scan._angles[2]
    /\ scan._distances[1] # scan._distances[2]

\* C18: a new Scan holds four empty sequences, and every accessor called
\* on a Scan to which nothing was added returns an empty sequence, without
\* an error (points returns its two rows, both of them empty).
C18_NewScanEmpty ==
    /\ ret.op = "__init__" =>
        /\ scan._distances = <<>> /\ scan._angles = <<>>
        /\ scan._intensities = <<>> /\ scan._error_codes = <<>>
    /\ (ret.op \in AccessorOps /\ added = <<>>) =>
        /\ ret.err = "none"
        /\ ret.val = IF ret.op = "points" THEN << <<>>, <<>> >> ELSE <<>>

\* An accessor has sorted and returned the empty sequence of a Scan that
\* has no measurement.
C18_Witness ==
    /\ ret.op = "points"
    /\ ret.sorted
    /\ added = <<>>
    /\ ret.val = << <<>>, <<>> >>

\* C20 as stated: the accessors return the added records in ascending
\* angle, and records of equal angle in the order they were added.
C20_StableSort ==
    ret.op \in AccessorOps =>
        \E p \in Permutations1(Len(AddedRecords)) :
            /\ Tuples(scan) = Take(AddedRecords, p)
            /\ \A i, j \in 1..Len(p) :
                i < j => \/ AddedRecords[p[i]].angle < AddedRecords[p[j]].angle
                         \/ /\ AddedRecords[p[i]].angle = AddedRecords[p[j]].angle
                            /\ p[i] < p[j]

\* C20, amended: the accessors return the added records rearranged by one
\* permutation that puts the angles in ascending order; which of the
\* records of equal angle comes first is not fixed by the insertion order.
C20_SortedByAngle ==
    ret.op \in AccessorOps =>
        \E p \in Permutations1(Len(AddedRecords)) :
            /\ Tuples(scan) = Take(AddedRecords, p)
            /\ \A i, j \in 1..Len(p) :
                i < j => AddedRecords[p[i]].angle <= AddedRecords[p[j]].angle

\* An accessor has returned two records of equal angle, that differ in
\* distance, in the reverse of the order they were added in.
C20_Witness ==
    /\ ret.op \in AccessorOps
    /\ Len(added) = 2
    /\ added[1].rec.angle = added[2].rec.angle
    /\ added[1].rec.distance # added[2].rec.distance
    /\ Tuples(scan) = <<added[2].rec, added[1].rec>>

\* --------------------------------------- add_measurement, call by call
\* A Scan and the add_measurement calls made on it, each with the
\* arguments it was given: distances on both sides of the maximum in
\* either unit, a negative one, and valid and invalid units.
AddDistanceInputs == {-1, 4, 5, 6, 4999, 5000, 5001, NaN}
AddAngleInputs == {90}

InitAdd ==
    /\ scan = NewScan
    /\ ret = NoRet
    /\ added = <<>>
    /\ file = <<>>
    /\ scan_string = <<>>
    /\ out = NoCall
    /\ plotter = NoPlotter

AddCall ==
    /\ Len(scan._angles) < MaxAdds
    /\ \E distance \in AddDistanceInputs, angle \in AddAngleInputs,
          linear_unit \in LinearUnitInputs, angular_unit \in AngularUnitInputs :
        LET r == add_measurement(scan, distance, angle, 7, 3,
                                 linear_unit, angular_unit)
        IN  /\ scan' = r.scan
            /\ ret' = [op |-> "add_measurement",
                       args |-> [distance |-> distance, angle |-> angle,
                                 linear_unit |-> linear_unit,
                                 angular_unit |-> angular_unit],
                       err |-> r.err]
            /\ added' = IF r.err = "none"
                        THEN Append(added,
                                    [rec |-> Record(distance, angle, 7, 3,
                                                    linear_unit, angular_unit),
                                     after_sort |-> ~scan._unsorted])
                        ELSE added
            /\ UNCHANGED parser_vars
            /\ UNCHANGED plotter

NextAdd == AddCall

SpecAdd == InitAdd /\ [][NextAdd]_vars

\* The distance argument of the last call in thousandths of a metre
ArgMillimeters ==
    IF IsNaN(ret.args.distance) THEN NaN
    ELSE IF ret.args.linear_unit = "millimeters" THEN ret.args.distance
    ELSE 1000 * ret.args.distance

LastDistance == scan._distances[Len(scan._distances)]

\* C12: a successful add_measurement appends one value to each sequence;
\* the distance appended is 0 when the distance given, in metres, exceeds
\* 5.0, and the distance given, in metres, otherwise.
C12_ClampToZero ==
    (ret.op = "add_measurement" /\ ret.err = "none") =>
        /\ SameLengths(scan)
        /\ Len(scan._distances) = Len(added)
        /\ Len(added) >= 1
        /\ LastDistance = IF Greater(ArgMillimeters, 5000) THEN 0
                          ELSE ArgMillimeters

\* 4999 mm was added and stored as 4.999 m, then 6 m was added and stored
\* as 0.
C12_Witness ==
    /\ ret.op = "add_measurement"
    /\ ret.err = "none"
    /\ ret.args.distance = 6
    /\ ret.args.linear_unit = "meters"
    /\ scan._distances = <<4999, 0>>

\* C13 as stated: a measurement added as 5000 mm is stored with distance 0.
C13_MaximumZeroed ==
    (/\ ret.op = "add_measurement"
     /\ ret.err = "none"
     /\ ret.args.distance = 5000
     /\ ret.args.linear_unit = "millimeters") => LastDistance = 0

\* C13, amended: a measurement added as 5000 mm, or as 5 m, is stored with
\* distance 5.0 m; 5001 mm, the next distance above it, is stored as 0.
C13_MaximumKept ==
    (ret.op = "add_measurement" /\ ret.err = "none") =>
        /\ ArgMillimeters = 5000 => LastDistance = 5000
        /\ ArgMillimeters = 5001 => LastDistance = 0

\* 5000 mm was added and is stored as 5.0 m.
C13_Witness ==
    /\ ret.op = "add_measurement"
    /\ ret.err = "none"
    /\ ret.args.distance = 5000
    /\ ret.args.linear_unit = "millimeters"
    /\ LastDistance = 5000
    /\ Len(scan._distances) = Len(added)

\* ------------------------------------------- the line checks, as claimed
\* A line of four numeric fields
FourNumbers(meas) == Len(meas) = 4 /\ \A k \in 1..4 : meas[k].num

\* A line of four numeric fields of which one is out of its range
OutOfRange(meas) ==
    /\ FourNumbers(meas)
    /\ \/ meas[2].v < 0
       \/ meas[1].v < 0 \/ meas[1].v > 359
       \/ meas[3].v < 0
       \/ meas[4].v < 0

InRange(meas) == FourNumbers(meas) /\ ~OutOfRange(meas)

\* The lines before the i-th are all in range and pass the angle check
\* that from_string makes, so the i-th line is the first it can reject
ReachesLine(scan_lines, i) ==
    \A j \in 1..(i - 1) :
        /\ InRange(scan_lines[j])
        /\ j > 1 => scan_lines[j][1].v > scan_lines[1][1].v

\* C14: a line of four numeric fields with a negative distance, an angle
\* below 0 or above 359, a negative intensity or a negative error code makes
\* from_string raise InvalidValue when it comes to it, and no measurement is
\* added for the line; no string that holds such a line yields a Scan.
C14_RangeRejected ==
    out.op = "from_string" =>
        LET scan_lines == split(scan_string)
        IN  \A i \in 1..Len(scan_lines) :
                OutOfRange(scan_lines[i]) =>
                    /\ ~out.returned
                    /\ ReachesLine(scan_lines, i) =>
                        /\ out.err = "InvalidValue"
                        /\ Len(out.scan._angles) = i - 1
                        /\ SameLengths(out.scan)

\* Two lines were added, then a line with angle 360 was rejected.
C14_Witness ==
    /\ out.op = "from_string"
    /\ Len(scan_string) = 3
    /\ scan_string[3] = DataLine(<<Tok(360, 100, 5, 0)>>)
    /\ out.err = "InvalidValue"
    /\ ~out.returned
    /\ Len(out.scan._angles) = 2

\* C15: a line that does not split into exactly 4 fields makes from_string
\* raise MalformedRecord when it comes to it, whatever its fields are (an
\* unparsable field included), and no string that holds such a line yields
\* a Scan.
C15_MalformedRejected ==
    out.op = "from_string" =>
        LET scan_lines == split(scan_string)
        IN  \A i \in 1..Len(scan_lines) :
                Len(scan_lines[i]) # 4 =>
                    /\ ~out.returned
                    /\ ReachesLine(scan_lines, i) =>
                        /\ out.err = "MalformedRecord"
                        /\ Len(out.scan._angles) = i - 1

\* A line of three fields whose first field is not a number was rejected
\* as malformed, after one line was added.
C15_Witness ==
    /\ out.op = "from_string"
    /\ scan_string = <<DataLine(<<Tok(0, 100, 5, 0)>>),
                       DataLine(<<<<X, N(100), N(5)>>>>)>>
    /\ out.err = "MalformedRecord"
    /\ ~out.returned
    /\ Len(out.scan._angles) = 1

\* The record add_measurement stores for a line given as millimeters and
\* degrees
LineRecord(meas) ==
    [distance |-> IF meas[2].v > 5000 THEN 0 ELSE meas[2].v,
     angle |-> (meas[1].v * PiScaled) \div 180,
     intensity |-> meas[3].v,
     error_code |-> meas[4].v]

\* Every line is in range and the angles are strictly increasing
ValidLines(scan_lines) ==
    /\ \A i \in 1..Len(scan_lines) :
        InRange(scan_lines[i]) /\ ~IsNaN(scan_lines[i][2].v)
    /\ \A i \in 1..(Len(scan_lines) - 1) :
        scan_lines[i][1].v < scan_lines[i + 1][1].v

\* C16: on a string whose lines all have four fields, in-range values and
\* strictly increasing angles, from_string returns a Scan that holds one
\* measurement per line, converted from millimeters and degrees, and the
\* accessors return them in the order of the lines.
C16_ValidStringParsed ==
    (out.op = "from_string" /\ ValidLines(split(scan_string))) =>
        LET scan_lines == split(scan_string)
            expected == [i \in 1..Len(scan_lines) |-> LineRecord(scan_lines[i])]
        IN  /\ out.returned
            /\ out.err = "none"
            /\ SameLengths(out.scan)
            /\ Tuples(out.scan) = expected
            /\ \A sorted_ndxs \in argsort(out.scan._angles) :
                Tuples(_sort_measurements(out.scan, sorted_ndxs)) = expected

\* Four lines at angles 0, 1, 2 and 3 were parsed into four measurements,
\* the last of them beyond the maximum distance and stored as 0.
C16_Witness ==
    /\ out.op = "from_string"
    /\ scan_string = <<DataLine(<<Tok(0, 100, 5, 0)>>),
                       DataLine(<<Tok(1, 100, 5, 0), Tok(2, 100, 5, 0)>>),
                       DataLine(<<Tok(3, 6000, 7, 1)>>)>>
    /\ out.returned
    /\ out.scan._distances = <<100, 100, 100, 0>>

\* ----------------------------------- a second start marker in a block
\* Line i is a start marker, line k the next marker and a start marker
\* too, with at least one line between them, and line j the end marker
\* that closes the block line k opened.
SecondStart(f, i, k, j) ==
    /\ i + 1 < k /\ k < j
    /\ IsStartMarker(f[i])
    /\ IsStartMarker(f[k])
    /\ \A m \in (i + 1)..(k - 1) : ~IsMarker(f[m])
    /\ Closes(f, j)
    /\ Opener(f, j) = k

\* The string file_to_strings emits at the closing end marker of line j
EmittedAt(f, j) == out.val[Cardinality({c \in Closers(f) : c <= j})]

\* C19 as stated: the lines between the first and the second start marker
\* are part of the string emitted at the next end marker, followed by the
\* lines between the second start marker and that end marker.
C19_KeepsLinesBeforeSecondStart ==
    out.op = "file_to_strings" =>
        \A i, k, j \in 1..Len(file) :
            SecondStart(file, i, k, j) =>
                LET str == EmittedAt(file, j)
                    kept == SubSeq(file, i + 1, k - 1) \o SubSeq(file, k + 1, j - 1)
                IN  /\ Len(str) >= Len(kept)
                    /\ SubSeq(str, Len(str) - Len(kept) + 1, Len(str)) = kept

\* C19, amended: a second start marker resets the accumulation; the string
\* emitted at the next end marker holds the lines after the second start
\* marker only, the lines between the two start markers are dropped.
C19_SecondStartResets ==
    out.op = "file_to_strings" =>
        \A i, k, j \in 1..Len(file) :
            SecondStart(file, i, k, j) =>
                EmittedAt(file, j) = SubSeq(file, k + 1, j - 1)

\* A file with a data line between two start markers and another one
\* before the end marker gave one string, holding the second data line only.
C19_Witness ==
    /\ out.op = "file_to_strings"
    /\ file = <<StartLine, GoodLine, StartLine, NextLine, EndLine>>
    /\ out.val = <<<<NextLine>>>>

\* ------------------------------------------------------------ ScanPlotter
\* plotter: the ScanPlotter: whether __init__ has run and how it ended,
\*          the Scans as they were given to it, its list of Scans, the
\*          index of the current Scan, the key of the last key event and
\*          the index before that event
\* The Scans handed to the ScanPlotter are Scans as from_string returns them.
ViewerStrings ==
    {<<>>,
     <<DataLine(<<Tok(0, 100, 5, 0)>>)>>,
     <<DataLine(<<Tok(0, 100, 5, 0)>>), DataLine(<<Tok(5, 150, 6, 0)>>),
       DataLine(<<Tok(3, 6000, 7, 1)>>)>>}

ViewerScanInputs == {from_string(str).scan : str \in ViewerStrings}

KeyInputs == {"d", "a", "q"}

InitViewer ==
    /\ scan = NewScan
    /\ ret = NoRet
    /\ added = <<>>
    /\ file = <<>>
    /\ scan_string = <<>>
    /\ out = NoCall
    /\ plotter \in {[NoPlotter EXCEPT !._scans = scans, !.given = scans] :
                        scans \in SeqsUpTo(ViewerScanInputs, MaxScans)}

\* What a Scan can be after one of its accessors was called on it
SortChoices(s) ==
    {_sort_measurements(s, sorted_ndxs) :
        sorted_ndxs \in (IF s._unsorted THEN argsort(s._angles) ELSE {<<>>})}

\* What a list of Scans can be after scan.x() and scan.y() were called on
\* each of them
RECURSIVE SortEach(_)
SortEach(scans) ==
    IF scans = <<>> THEN {<<>>}
    ELSE {<<s>> \o rest : s \in SortChoices(Head(scans)),
                           rest \in SortEach(Tail(scans))}

\* ScanPlotter.__init__: np.concatenate raises on an empty list and max()
\* on an empty array, that is when no Scan holds a measurement
PlotterInit ==
    /\ plotter.state = "none"
    /\ \E scans \in SortEach(plotter._scans) :
        plotter' = [state |-> IF \A i \in 1..Len(scans) : scans[i]._angles = <<>>
                              THEN "failed" ELSE "ready",
                    given |-> plotter.given,
                    _scans |-> scans, _sdx |-> 0, key |-> "", was |-> 0]
    /\ UNCHANGED scan_vars
    /\ UNCHANGED parser_vars

\* ScanPlotter._replot: the plotters that can result
_replot(pl) ==
    IF 0 <= pl._sdx /\ pl._sdx < Len(pl._scans)
    THEN {[pl EXCEPT !._scans[pl._sdx + 1] = s] :
            s \in SortChoices(pl._scans[pl._sdx + 1])}
    ELSE {pl}

\* Mutant: the index is limited only when it is beyond len(scans).
LimitIndex_beyond(sdx, n) ==
    IF sdx < 0 THEN 0 ELSE IF sdx > n THEN n - 1 ELSE sdx

\* '# Limit index.' of _keyboard_control
LimitIndex(sdx, n) ==
    IF sdx < 0 THEN 0 ELSE IF sdx >= n THEN n - 1 ELSE sdx

\* ScanPlotter._keyboard_control, called with a key event
KeyboardControl(key) ==
    /\ plotter.state \in {"ready", "shown"}
    /\ LET moved == IF key = "d" THEN plotter._sdx + 1
                    ELSE IF key = "a" THEN plotter._sdx - 1
                    ELSE plotter._sdx
       IN  plotter' \in _replot([plotter EXCEPT
                                    !._sdx = LimitIndex(moved, Len(plotter._scans)),
                                    !.key = key,
                                    !.was = plotter._sdx])
    /\ UNCHANGED scan_vars
    /\ UNCHANGED parser_vars

KeyEvent == \E key \in KeyInputs : KeyboardControl(key)

\* ScanPlotter.show_scans
ShowScans ==
    /\ plotter.state = "ready"
    /\ plotter' \in {[pl EXCEPT !.state = "shown"] : pl \in _replot(plotter)}
    /\ UNCHANGED scan_vars
    /\ UNCHANGED parser_vars

NextViewer ==
    \/ PlotterInit
    \/ ShowScans
    \/ KeyEvent

SpecViewer == InitViewer /\ [][NextViewer]_vars

\* C17: once a ScanPlotter is built, its list of Scans is not empty and the
\* index stays within 0..len(scans)-1 whatever keys are pressed; 'd' on the
\* last Scan and 'a' on the first leave the index where it was.
C17_IndexInRange ==
    plotter.state \in {"ready", "shown"} =>
        /\ Len(plotter._scans) >= 1
        /\ 0 <= plotter._sdx
        /\ plotter._sdx <= Len(plotter._scans) - 1
        /\ (plotter.key = "d" /\ plotter.was = Len(plotter._scans) - 1) =>
            plotter._sdx = plotter.was
        /\ (plotter.key = "a" /\ plotter.was = 0) => plotter._sdx = 0

\* 'd' was pressed on the last of three Scans and the index is still 2.
C17_Witness ==
    /\ plotter.state = "shown"
    /\ Len(plotter._scans) = 3
    /\ plotter.key = "d"
    /\ plotter.was = 2
    /\ plotter._sdx = 2

\* C22: whenever the dirty flag of a Scan is clear its stored angles are in
\* ascending order, and the four sequences are of one length: no operation
\* leaves the flag clear over sequences that are out of angle order.
C22_ClearFlagMeansSorted ==
    ~scan._unsorted => Ascending(scan._angles) /\ SameLengths(scan)

\* The flag is clear on a Scan of two records that were added in descending
\* angle and that x() has put in ascending angle.
C22_Witness ==
    /\ ~scan._unsorted
    /\ ret.op = "x"
    /\ Len(added) = 2
    /\ added[1].rec.angle > added[2].rec.angle
    /\ scan._angles = <<added[2].rec.angle, added[1].rec.angle>>

\* C21 as stated: every Scan of the viewer's list is in the state it was
\* given in, stored order and dirty flag alike.
C21_ScansUntouched ==
    plotter.state # "none" => plotter._scans = plotter.given

\* C21, amended: the viewer adds and removes no measurement, but the
\* accessors it calls sort the Scans in place: once __init__ has run every
\* Scan of the list holds the records it was given, in ascending angle and
\* with the dirty flag clear, whatever order and flag it was given with.
C21_ScansSortedInPlace ==
    plotter.state # "none" =>
        /\ Len(plotter._scans) = Len(plotter.given)
        /\ \A i \in 1..Len(plotter._scans) :
            /\ SameLengths(plotter._scans[i])
            /\ BagOfSeq(Tuples(plotter._scans[i])) = BagOfSeq(Tuples(plotter.given[i]))
            /\ Ascending(plotter._scans[i]._angles)
            /\ ~plotter._scans[i]._unsorted
            /\ plotter.given[i]._unsorted

\* After a key event the first Scan of the list, given with its angles out
\* of order, is stored in another order than it was given in.
C21_Witness ==
    /\ plotter.state = "shown"
    /\ plotter.key = "a"
    /\ Len(plotter._scans) >= 1
    /\ ~Ascending(plotter.given[1]._angles)
    /\ plotter._scans[1]._angles # plotter.given[1]._angles
    /\ ~plotter._scans[1]._unsorted

\* ------------------------------------------------------------ empty block
\* Line i is a start marker and line i + 1 the end marker that closes it
EmptyBlock(f, i) ==
    /\ i + 1 <= Len(f)
    /\ IsStartMarker(f[i])
    /\ IsEndMarker(f[i + 1])

\* The number of blocks closed before line j whose string from_string parses
ParsedBefore(f, j) ==
    Cardinality({c \in Closers(f) :
        c < j /\ from_string(SubSeq(f, Opener(f, c) + 1, c - 1)).returned})

\* C24: a start marker immediately followed by an end marker makes
\* file_to_strings emit an empty string at that place, and from_file return
\* a Scan without measurements there, after the Scans of the blocks before
\* it that parse.
C24_EmptyBlockKept ==
    \A i \in 1..Len(file) :
        EmptyBlock(file, i) =>
            /\ out.op = "file_to_strings" => EmittedAt(file, i + 1) = <<>>
            /\ out.op = "from_file" =>
                /\ Len(out.val) > ParsedBefore(file, i + 1)
                /\ out.val[ParsedBefore(file, i + 1) + 1] = NewScan

\* from_file returned the Scan of a block of one line and, after it, the
\* empty Scan of an empty block.
C24_Witness ==
    /\ out.op = "from_file"
    /\ file = <<StartLine, GoodLine, EndLine, StartLine, EndLine>>
    /\ Len(out.val) = 2
    /\ out.val[1]._angles # <<>>
    /\ out.val[2] = NewScan

\* ---------------------------------------------------------- marker pairing
\* A file with every line that holds both tokens replaced by a start marker
BothAsStart(f) == [i \in 1..Len(f) |-> IF f[i].start THEN StartLine ELSE f[i]]

\* C25: file_to_strings returns at most as many strings as the file has
\* start markers, and at most as many as it has end markers; it emits one
\* string for each end marker met while accumulating and none for any other;
\* a line holding both tokens counts as a start marker only.
C25_MarkerPairing ==
    out.op = "file_to_strings" =>
        /\ Len(out.val) <= Cardinality({i \in 1..Len(file) : IsStartMarker(file[i])})
        /\ Len(out.val) <= Cardinality({i \in 1..Len(file) : IsEndMarker(file[i])})
        /\ Len(out.val) = Cardinality(Closers(file))
        /\ out.val = file_to_strings(BothAsStart(file))

\* An end marker came first and emitted nothing; a line with both tokens
\* then opened the one block of the file instead of closing anything.
C25_Witness ==
    /\ out.op = "file_to_strings"
    /\ file = <<EndLine, StartLine, BothLine, GoodLine, EndLine>>
    /\ out.val = <<<<GoodLine>>>>

\* --------------------------------------------------- stored-distance bound
\* a <= b and a >= b on floats
AtMost(a, b) == ~IsNaN(a) /\ ~IsNaN(b) /\ a <= b
AtLeast(a, b) == ~IsNaN(a) /\ ~IsNaN(b) /\ a >= b

\* C23: every distance add_measurement has stored in the Scan from_string
\* builds is at most 5.0 m, and every distance of a Scan from_string
\* returns is at least 0 and at most 5.0 m.
C23_DistanceBound ==
    out.op = "from_string" =>
        /\ \A i \in 1..Len(out.scan._distances) :
            AtMost(out.scan._distances[i], _distance_max * Scale)
        /\ out.returned =>
            \A i \in 1..Len(out.scan._distances) :
                /\ AtLeast(out.scan._distances[i], 0)
                /\ AtMost(out.scan._distances[i], _distance_max * Scale)

====
